---- MODULE Spec2Model ----
(***************************************************************************)
(* Per-base quality scores of Trycycler (trycycler/base_scores.py).        *)
(*                                                                         *)
(* Python lists and Numpy arrays are modelled as TLA+ sequences, so every  *)
(* index of the source is shifted by one here: column i of the source is   *)
(* element i + 1 of the sequence.  Reference coordinates (ref_start,       *)
(* ref_end) keep the source's 0-based half-open values.  A CIGAR string is *)
(* a sequence of one-character strings.                                    *)
(***************************************************************************)
EXTENDS Integers, Sequences, FiniteSets, TLC

VARIABLES
    pc,                 \* position of the running function
    err,                \* the exception that ended it ("none" while running)
    a,                  \* the alignment record get_alignment_scores works on
    expanded_cigar,     \* get_alignment_scores: expanded_cigar
    pass_fail,          \* get_alignment_scores: pass_fail
    forward_scores,     \* get_alignment_scores: forward_scores
    reverse_scores,     \* get_alignment_scores: reverse_scores
    final_scores,       \* combine_forward_and_reverse_scores: final_scores
    seq_len,            \* get_one_seq_per_base_scores: seq_len
    circular,           \* get_one_seq_per_base_scores: circular
    aligner_output,     \* what align_reads_to_seq returned
    alignments,         \* get_one_seq_per_base_scores: alignments
    done_count,         \* number of alignments the scoring loop has finished
    per_base_scores,    \* the accumulator of length len(ref_seq)
    non_doubled_per_base_scores,
    returned            \* the profile get_one_seq_per_base_scores returns

vars == <<pc, err, a, expanded_cigar, pass_fail, forward_scores, reverse_scores,
          final_scores, seq_len, circular, aligner_output, alignments,
          done_count, per_base_scores, non_doubled_per_base_scores, returned>>

alignment_vars == <<a, expanded_cigar, pass_fail, forward_scores,
                    reverse_scores, final_scores>>

sequence_vars == <<seq_len, circular, aligner_output, alignments, done_count,
                   per_base_scores, non_doubled_per_base_scores, returned>>

----------------------------------------------------------------------------
(* Bounds of the model. *)

\* Longest raw CIGAR string (in characters) handed to get_expanded_cigar.
MaxCigarChars == 4

\* Most columns of an alignment handed to get_alignment_scores.
MaxCols == 5

\* Most columns of the sequences handed to the two scans on their own.
MaxScanLen == 4

\* Longest candidate sequence.
MaxSeqLen == 2

\* Most alignment records the aligner returns for one sequence.
MaxAligns == 2

----------------------------------------------------------------------------
(* settings.BASE_SCORE_WINDOW and settings.BASE_SCORE_THRESHOLD: the       *)
(* sliding window's width (odd) and the number of non-match columns in it  *)
(* from which its centre fails.  settings.py sets them; here they are      *)
(* scaled down to the size of the modelled alignments.                     *)

BASE_SCORE_WINDOW == 3

BASE_SCORE_THRESHOLD == 2

----------------------------------------------------------------------------
(* Small helpers standing for Python built-ins. *)

Min(x, y) == IF x < y THEN x ELSE y

Max(x, y) == IF x > y THEN x ELSE y

\* [0] * n ; a negative n gives the empty list.
Zeros(n) == [k \in 1..Max(n, 0) |-> 0]

RECURSIVE SumSeq(_)
SumSeq(s) == IF s = <<>> THEN 0 ELSE s[1] + SumSeq(Tail(s))

\* All sequences over S of length at most n.
SeqsUpTo(S, n) == UNION {[1..k -> S] : k \in 0..n}

----------------------------------------------------------------------------
(* get_expanded_cigar *)

Digits == {"0", "1", "2", "3", "4", "5", "6", "7", "8", "9"}

\* The character class [IDX=] of the regular expression.
OpLetters == {"I", "D", "X", "="}

DigitVal(c) ==
    CASE c = "0" -> 0 [] c = "1" -> 1 [] c = "2" -> 2 [] c = "3" -> 3
      [] c = "4" -> 4 [] c = "5" -> 5 [] c = "6" -> 6 [] c = "7" -> 7
      [] c = "8" -> 8 [] c = "9" -> 9

\* int(c[:-1]) on a run of decimal digits.
RECURSIVE IntOf(_)
IntOf(ds) ==
    IF ds = <<>> THEN 0
    ELSE 10 * IntOf(SubSeq(ds, 1, Len(ds) - 1)) + DigitVal(ds[Len(ds)])

\* First position at or after p that holds no digit (Len(s) + 1 if none).
RECURSIVE DigitRunEnd(_, _)
DigitRunEnd(s, p) ==
    IF p > Len(s) \/ s[p] \notin Digits THEN p ELSE DigitRunEnd(s, p + 1)

(* re.findall(r'\d+[IDX=]', s) from position p on: the leftmost match, then *)
(* the matches after it.  A match starts at a digit, takes the whole digit  *)
(* run and needs an operation letter right after it; text that matches      *)
(* nowhere is skipped.                                                      *)
RECURSIVE FindAll(_, _)
FindAll(s, p) ==
    IF p > Len(s) THEN <<>>
    ELSE IF s[p] \notin Digits THEN FindAll(s, p + 1)
    ELSE LET q == DigitRunEnd(s, p)
         IN  IF q <= Len(s) /\ s[q] \in OpLetters
             THEN <<SubSeq(s, p, q)>> \o FindAll(s, q + 1)
             ELSE FindAll(s, p + 1)

\* cigar_parts = [(int(c[:-1]), c[-1]) for c in cigar_parts]
CigarParts(cigar) ==
    LET found == FindAll(cigar, 1)
    IN  [k \in 1..Len(found) |->
            [num    |-> IntOf(SubSeq(found[k], 1, Len(found[k]) - 1)),
             letter |-> found[k][Len(found[k])]]]

\* 0: =, 1: X, 2: I, 3: D
LetterCode(letter) ==
    CASE letter = "=" -> 0
      [] letter = "X" -> 1
      [] letter = "I" -> 2
      [] letter = "D" -> 3

RECURSIVE ExpandParts(_)
ExpandParts(parts) ==
    IF parts = <<>> THEN <<>>
    ELSE [k \in 1..parts[1].num |-> LetterCode(parts[1].letter)]
         \o ExpandParts(Tail(parts))

get_expanded_cigar(rec) == ExpandParts(CigarParts(rec.cigar))

----------------------------------------------------------------------------
(* get_pass_fail *)

\* simplified_expanded_cigar[simplified_expanded_cigar > 1] = 1
Simplified(ec) == [k \in 1..Len(ec) |-> IF ec[k] > 1 THEN 1 ELSE ec[k]]

\* np.ones(n, dtype=int)
Ones(n) == [k \in 1..n |-> 1]

RECURSIVE SumOver(_, _)
SumOver(f, S) ==
    IF S = {} THEN 0
    ELSE LET x == CHOOSE y \in S : TRUE IN f[x] + SumOver(f, S \ {x})

(* np.convolve(x, y, 'same') for len(x) >= len(y) > 0: numpy correlates x   *)
(* with y reversed, n_left = len(y) // 2 columns of y hanging over x's left *)
(* end at output 0; products that fall outside x are left out.  The output  *)
(* has the length of x.  Source indices: out[i] = sum over j of             *)
(* x[i - n_left + j] * y[len(y) - 1 - j].                                   *)
CorrelateSame(x, y) ==
    LET n2     == Len(y)
        n_left == n2 \div 2
    IN  [i \in 1..Len(x) |->
            LET js == {j \in 1..n2 : (i - n_left + j - 1) \in 1..Len(x)}
                term == [j \in js |-> x[i - n_left + j - 1] * y[n2 + 1 - j]]
            IN  SumOver(term, js)]

(* np.convolve(a, v, 'same'): the longer operand is slid over by the        *)
(* shorter one (the operands are swapped when v is longer than a), so the   *)
(* output has length max(len(a), len(v)); an empty operand is a ValueError. *)
Convolve(x, v) ==
    LET first  == IF Len(v) > Len(x) THEN v ELSE x
        second == IF Len(v) > Len(x) THEN x ELSE v
    IN  IF Len(first) = 0 \/ Len(second) = 0
        THEN [err |-> "ValueError", value |-> <<>>]
        ELSE [err |-> "none", value |-> CorrelateSame(first, second)]

\* pass_fail[pass_fail < T] = 0, then pass_fail[pass_fail >= T] = 1
Threshold(conv) ==
    LET low == [k \in 1..Len(conv) |->
                    IF conv[k] < BASE_SCORE_THRESHOLD THEN 0 ELSE conv[k]]
    IN  [k \in 1..Len(low) |->
            IF low[k] >= BASE_SCORE_THRESHOLD THEN 1 ELSE low[k]]

get_pass_fail(ec) ==
    LET conv == Convolve(Simplified(ec), Ones(BASE_SCORE_WINDOW))
    IN  IF conv.err # "none" THEN conv
        ELSE [err |-> "none", value |-> Threshold(conv.value)]

----------------------------------------------------------------------------
(* get_cigar_scores_forward, get_cigar_scores_reverse *)

\* ScoreStep without the floor at 0 (lines 160-161 and 176-177 left out).
ScoreStep_NoFloor(score, fail, op) ==
    IF fail = 1 THEN 0
    ELSE IF op = 0 THEN score + 1
    ELSE score - 1

\* One pass of the loop body: the running score after a column.
ScoreStep(score, fail, op) ==
    IF fail = 1 THEN 0
    ELSE IF op = 0 THEN score + 1
    ELSE IF score - 1 < 0 THEN 0 ELSE score - 1

\* scores[0 .. n-1] after n passes of the forward loop.
RECURSIVE ForwardScan(_, _, _)
ForwardScan(ec, pf, n) ==
    IF n = 0 THEN <<>>
    ELSE LET before == ForwardScan(ec, pf, n - 1)
             score  == IF n = 1 THEN 0 ELSE before[n - 1]
         IN  Append(before, ScoreStep(score, pf[n], ec[n]))

get_cigar_scores_forward(ec, pf) == ForwardScan(ec, pf, Len(ec))

\* scores[k-1 .. len-1] once the reverse loop has come down to column k.
RECURSIVE ReverseScan(_, _, _)
ReverseScan(ec, pf, k) ==
    IF k > Len(ec) THEN <<>>
    ELSE LET after == ReverseScan(ec, pf, k + 1)
             score == IF after = <<>> THEN 0 ELSE after[1]
         IN  <<ScoreStep(score, pf[k], ec[k])>> \o after

get_cigar_scores_reverse(ec, pf) == ReverseScan(ec, pf, 1)

----------------------------------------------------------------------------
(* combine_forward_and_reverse_scores *)

\* CombineLoop that takes deletions (code 3) for the columns to skip.
RECURSIVE CombineLoop_SkipsDeletions(_, _, _, _, _)
CombineLoop_SkipsDeletions(final0, f, r, ec, n) ==
    IF n = 0 THEN [err |-> "none", j |-> 0, final |-> final0]
    ELSE LET prev == CombineLoop_SkipsDeletions(final0, f, r, ec, n - 1)
         IN  IF prev.err # "none" THEN prev
             ELSE IF ec[n] = 3 THEN prev
             ELSE IF prev.j >= Len(prev.final)
                  THEN [prev EXCEPT !.err = "IndexError"]
             ELSE [err   |-> "none",
                   j     |-> prev.j + 1,
                   final |-> [prev.final EXCEPT ![prev.j + 1] =
                                 IF f[n] < r[n] THEN f[n] ELSE r[n]]]

\* CombineLoop with the comparison turned round: the larger of the two scores.
RECURSIVE CombineLoop_TakesLarger(_, _, _, _, _)
CombineLoop_TakesLarger(final0, f, r, ec, n) ==
    IF n = 0 THEN [err |-> "none", j |-> 0, final |-> final0]
    ELSE LET prev == CombineLoop_TakesLarger(final0, f, r, ec, n - 1)
         IN  IF prev.err # "none" THEN prev
             ELSE IF ec[n] = 2 THEN prev
             ELSE IF prev.j >= Len(prev.final)
                  THEN [prev EXCEPT !.err = "IndexError"]
             ELSE [err   |-> "none",
                   j     |-> prev.j + 1,
                   final |-> [prev.final EXCEPT ![prev.j + 1] =
                                 IF f[n] > r[n] THEN f[n] ELSE r[n]]]

(* The loop over enumerate(forward_scores) after n columns: j, final_scores *)
(* and the IndexError a write past the end of final_scores raises.         *)
RECURSIVE CombineLoop(_, _, _, _, _)
CombineLoop(final0, f, r, ec, n) ==
    IF n = 0 THEN [err |-> "none", j |-> 0, final |-> final0]
    ELSE LET prev == CombineLoop(final0, f, r, ec, n - 1)
         IN  IF prev.err # "none" THEN prev
             ELSE IF ec[n] = 2 THEN prev
             ELSE IF prev.j >= Len(prev.final)
                  THEN [prev EXCEPT !.err = "IndexError"]
             ELSE [err   |-> "none",
                   j     |-> prev.j + 1,
                   final |-> [prev.final EXCEPT ![prev.j + 1] =
                                 IF f[n] < r[n] THEN f[n] ELSE r[n]]]

combine_forward_and_reverse_scores(rec, f, r, ec) ==
    LET loop == CombineLoop(Zeros(rec.ref_end - rec.ref_start), f, r, ec, Len(f))
    IN  IF Len(f) # Len(r) THEN [err |-> "AssertionError", value |-> <<>>]
        ELSE IF loop.err # "none" THEN [err |-> loop.err, value |-> <<>>]
        ELSE IF Len(loop.final) # loop.j
             THEN [err |-> "AssertionError", value |-> <<>>]
        ELSE [err |-> "none", value |-> loop.final]

----------------------------------------------------------------------------
(* get_alignment_scores *)

get_alignment_scores(rec) ==
    LET ec == get_expanded_cigar(rec)
        pf == get_pass_fail(ec)
    IN  IF pf.err # "none" THEN pf
        ELSE combine_forward_and_reverse_scores(
                 rec,
                 get_cigar_scores_forward(ec, pf.value),
                 get_cigar_scores_reverse(ec, pf.value),
                 ec)

----------------------------------------------------------------------------
(* The aligner (trycycler/alignment.py, align_reads_to_seq) as this file    *)
(* sees it: records with ref_start, ref_end and a CIGAR string of run       *)
(* lengths and the letters =, X, I, D.                                      *)

\* str(n) for n >= 0
RECURSIVE DecimalOf(_)
DecimalOf(n) ==
    LET d == CHOOSE c \in Digits : DigitVal(c) = n % 10
    IN  IF n < 10 THEN <<d>> ELSE Append(DecimalOf(n \div 10), d)

LetterOf(code) ==
    CASE code = 0 -> "=" [] code = 1 -> "X" [] code = 2 -> "I" [] code = 3 -> "D"

\* Length of the run of equal codes that starts ops.
RECURSIVE RunLength(_)
RunLength(ops) ==
    IF Len(ops) <= 1 THEN Len(ops)
    ELSE IF ops[2] # ops[1] THEN 1 ELSE 1 + RunLength(Tail(ops))

\* The CIGAR string of an alignment whose columns are ops: one run after another.
RECURSIVE CigarString(_)
CigarString(ops) ==
    IF ops = <<>> THEN <<>>
    ELSE LET n == RunLength(ops)
         IN  DecimalOf(n) \o <<LetterOf(ops[1])>>
             \o CigarString(SubSeq(ops, n + 1, Len(ops)))

\* Reference bases an alignment covers: every column but the insertions.
RefSpan(ops) == Cardinality({k \in 1..Len(ops) : ops[k] # 2})

\* The characters raw CIGAR strings are drawn from: S and M are operations
\* of other CIGAR dialects (soft clip, alignment match).
RawAlphabet == {"0", "1", "2", "=", "X", "I", "D", "S", "M"}

RawCigars == SeqsUpTo(RawAlphabet, MaxCigarChars)

\* Column patterns of the alignments handed to get_alignment_scores.
ColumnPatterns == SeqsUpTo(0..3, MaxCols)

\* Columns of the alignments the aligner returns to get_one_seq_per_base_scores:
\* 1=, 2=, 1=1I1=, 3=, 1=1D2=.
AlignerOps == {<<0>>, <<0, 0>>, <<0, 2, 0>>, <<0, 0, 0>>, <<0, 3, 0, 0>>}

AlignerRecords(ref_len) ==
    {[ref_start |-> s, ref_end |-> s + RefSpan(ops), cigar |-> CigarString(ops)] :
        s \in 0..(ref_len - 1), ops \in AlignerOps}

NoRecord == [ref_start |-> 0, ref_end |-> 0, cigar |-> <<>>]

----------------------------------------------------------------------------
(* get_alignment_scores, one statement at a time. *)

Expand ==
    /\ pc = "expand"
    /\ expanded_cigar' = get_expanded_cigar(a)
    /\ pc' = "pass_fail"
    /\ UNCHANGED <<err, a, pass_fail, forward_scores, reverse_scores,
                   final_scores, sequence_vars>>

PassFail ==
    /\ pc = "pass_fail"
    /\ LET pf == get_pass_fail(expanded_cigar)
       IN  /\ pass_fail' = pf.value
           /\ err' = pf.err
           /\ pc' = IF pf.err = "none" THEN "forward" ELSE "raised"
    /\ UNCHANGED <<a, expanded_cigar, forward_scores, reverse_scores,
                   final_scores, sequence_vars>>

Forward ==
    /\ pc = "forward"
    /\ forward_scores' = get_cigar_scores_forward(expanded_cigar, pass_fail)
    /\ pc' = "reverse"
    /\ UNCHANGED <<err, a, expanded_cigar, pass_fail, reverse_scores,
                   final_scores, sequence_vars>>

Reverse ==
    /\ pc = "reverse"
    /\ reverse_scores' = get_cigar_scores_reverse(expanded_cigar, pass_fail)
    /\ pc' = "combine"
    /\ UNCHANGED <<err, a, expanded_cigar, pass_fail, forward_scores,
                   final_scores, sequence_vars>>

Combine ==
    /\ pc = "combine"
    /\ LET c == combine_forward_and_reverse_scores(
                    a, forward_scores, reverse_scores, expanded_cigar)
       IN  /\ final_scores' = c.value
           /\ err' = c.err
           /\ pc' = IF c.err = "none" THEN "returned" ELSE "raised"
    /\ UNCHANGED <<a, expanded_cigar, pass_fail, forward_scores,
                   reverse_scores, sequence_vars>>

NoSequence ==
    /\ seq_len = 0
    /\ circular = FALSE
    /\ aligner_output = <<>>
    /\ alignments = <<>>
    /\ done_count = 0
    /\ per_base_scores = <<>>
    /\ non_doubled_per_base_scores = <<>>
    /\ returned = <<>>

NoAlignment ==
    /\ a = NoRecord
    /\ expanded_cigar = <<>>
    /\ pass_fail = <<>>
    /\ forward_scores = <<>>
    /\ reverse_scores = <<>>
    /\ final_scores = <<>>

\* get_expanded_cigar on any string.
InitCigar ==
    /\ pc = "expand"
    /\ err = "none"
    /\ \E c \in RawCigars : a = [ref_start |-> 0, ref_end |-> 0, cigar |-> c]
    /\ expanded_cigar = <<>>
    /\ pass_fail = <<>>
    /\ forward_scores = <<>>
    /\ reverse_scores = <<>>
    /\ final_scores = <<>>
    /\ NoSequence

NextCigar == Expand

SpecCigar == InitCigar /\ [][NextCigar]_vars

\* get_alignment_scores on any record with a CIGAR of =, X, I and D runs.
InitAlignment ==
    /\ pc = "expand"
    /\ err = "none"
    /\ \E s \in {0, 1}, e \in 0..(MaxCols + 1), ops \in ColumnPatterns :
          a = [ref_start |-> s, ref_end |-> e, cigar |-> CigarString(ops)]
    /\ expanded_cigar = <<>>
    /\ pass_fail = <<>>
    /\ forward_scores = <<>>
    /\ reverse_scores = <<>>
    /\ final_scores = <<>>
    /\ NoSequence

NextAlignment == Expand \/ PassFail \/ Forward \/ Reverse \/ Combine

SpecAlignment == InitAlignment /\ [][NextAlignment]_vars

\* The two scans on any expanded CIGAR and any mask of its length.
InitScan ==
    /\ pc = "forward"
    /\ err = "none"
    /\ a = NoRecord
    /\ expanded_cigar \in SeqsUpTo(0..3, MaxScanLen)
    /\ pass_fail \in [1..Len(expanded_cigar) -> {0, 1}]
    /\ forward_scores = <<>>
    /\ reverse_scores = <<>>
    /\ final_scores = <<>>
    /\ NoSequence

NextScan == Forward \/ Reverse

SpecScan == InitScan /\ [][NextScan]_vars

----------------------------------------------------------------------------
(* get_one_seq_per_base_scores *)

\* len(ref_seq): seq + seq for a circular sequence.
RefLen(len, circ) == IF circ THEN len + len ELSE len

\* FirstHalf that keeps only the alignments that end in the first half.
FirstHalf_EndsInFirstHalf(recs, len) ==
    LET InFirstHalf(rec) == rec.ref_end <= len
    IN  SelectSeq(recs, InFirstHalf)

\* alignments = [a for a in alignments if a.ref_start < seq_len]
FirstHalf(recs, len) ==
    LET InFirstHalf(rec) == rec.ref_start < len
    IN  SelectSeq(recs, InFirstHalf)

Retained(recs, len, circ) == IF circ THEN FirstHalf(recs, len) ELSE recs

\* AccumulateLoop with = for += : a later alignment overwrites an earlier one.
RECURSIVE AccumulateLoop_Assign(_, _, _, _)
AccumulateLoop_Assign(scores, rec, alignment_scores, n) ==
    IF n = 0 THEN [err |-> "none", value |-> scores]
    ELSE LET prev    == AccumulateLoop_Assign(scores, rec, alignment_scores, n - 1)
             ref_pos == rec.ref_start + (n - 1)
         IN  IF prev.err # "none" THEN prev
             ELSE IF ref_pos + 1 > Len(prev.value)
                  THEN [prev EXCEPT !.err = "IndexError"]
             ELSE [err   |-> "none",
                   value |-> [prev.value EXCEPT ![ref_pos + 1] =
                                 alignment_scores[n]]]

(* for j, s in enumerate(alignment_scores): per_base_scores[a.ref_start + j] *)
(* += s, after n passes.  A position past the end of the list is an         *)
(* IndexError; the entries written before it stay written.  (ref_start is   *)
(* never negative here, so no index counts from the end of the list.)       *)
RECURSIVE AccumulateLoop(_, _, _, _)
AccumulateLoop(scores, rec, alignment_scores, n) ==
    IF n = 0 THEN [err |-> "none", value |-> scores]
    ELSE LET prev    == AccumulateLoop(scores, rec, alignment_scores, n - 1)
             ref_pos == rec.ref_start + (n - 1)
         IN  IF prev.err # "none" THEN prev
             ELSE IF ref_pos + 1 > Len(prev.value)
                  THEN [prev EXCEPT !.err = "IndexError"]
             ELSE [err   |-> "none",
                   value |-> [prev.value EXCEPT ![ref_pos + 1] =
                                 @ + alignment_scores[n]]]

\* AddAlignment whose inner loop stops one score early.
AddAlignment_DropsLast(scores, rec) ==
    LET res == get_alignment_scores(rec)
    IN  IF res.err # "none" THEN [err |-> res.err, value |-> scores]
        ELSE AccumulateLoop(scores, rec, res.value, Max(Len(res.value) - 1, 0))

\* One pass of the loop over the alignments.
AddAlignment(scores, rec) ==
    LET res == get_alignment_scores(rec)
    IN  IF res.err # "none" THEN [err |-> res.err, value |-> scores]
        ELSE AccumulateLoop(scores, rec, res.value, Len(res.value))

\* Undoubled that never collapses the two halves.
Undoubled_NotCollapsed(scores, len) == scores

\* Undoubled with the comparison turned round: the smaller of the two scores.
Undoubled_TakesSmaller(scores, len) ==
    [k \in 1..len |->
        IF scores[k] < scores[k + len] THEN scores[k] ELSE scores[k + len]]

\* The undoubling loop: the larger of the two halves' scores.
Undoubled(scores, len) ==
    [k \in 1..len |->
        IF scores[k] > scores[k + len] THEN scores[k] ELSE scores[k + len]]

Align ==
    /\ pc = "align"
    /\ \E out \in SeqsUpTo(AlignerRecords(RefLen(seq_len, circular)), MaxAligns) :
          /\ aligner_output' = out
          /\ alignments' = Retained(out, seq_len, circular)
    /\ per_base_scores' = Zeros(RefLen(seq_len, circular))
    /\ done_count' = 0
    /\ pc' = "score"
    /\ UNCHANGED <<err, alignment_vars, seq_len, circular,
                   non_doubled_per_base_scores, returned>>

ScoreAlignment ==
    /\ pc = "score"
    /\ done_count < Len(alignments)
    /\ LET res == AddAlignment(per_base_scores, alignments[done_count + 1])
       IN  /\ per_base_scores' = res.value
           /\ err' = res.err
           /\ done_count' = IF res.err = "none" THEN done_count + 1 ELSE done_count
           /\ pc' = IF res.err = "none" THEN "score" ELSE "raised"
    /\ UNCHANGED <<alignment_vars, seq_len, circular, aligner_output,
                   alignments, non_doubled_per_base_scores, returned>>

Undouble ==
    /\ pc = "score"
    /\ done_count = Len(alignments)
    /\ circular
    /\ non_doubled_per_base_scores' = Undoubled(per_base_scores, seq_len)
    /\ pc' = "return"
    /\ UNCHANGED <<err, alignment_vars, seq_len, circular, aligner_output,
                   alignments, done_count, per_base_scores, returned>>

SkipUndouble ==
    /\ pc = "score"
    /\ done_count = Len(alignments)
    /\ ~circular
    /\ pc' = "return"
    /\ UNCHANGED <<err, alignment_vars, sequence_vars>>

Return ==
    /\ pc = "return"
    /\ returned' = IF circular THEN non_doubled_per_base_scores
                   ELSE per_base_scores
    /\ pc' = "done"
    /\ UNCHANGED <<err, alignment_vars, seq_len, circular, aligner_output,
                   alignments, done_count, per_base_scores,
                   non_doubled_per_base_scores>>

Init ==
    /\ pc = "align"
    /\ err = "none"
    /\ NoAlignment
    /\ seq_len \in 1..MaxSeqLen
    /\ circular \in BOOLEAN
    /\ aligner_output = <<>>
    /\ alignments = <<>>
    /\ done_count = 0
    /\ per_base_scores = <<>>
    /\ non_doubled_per_base_scores = <<>>
    /\ returned = <<>>

Next == Align \/ ScoreAlignment \/ Undouble \/ SkipUndouble \/ Return

Spec == Init /\ [][Next]_vars

----------------------------------------------------------------------------
(* Properties of get_expanded_cigar (SpecCigar). *)

\* Every character of the string belongs to a <digits><=, X, I or D> token.
WellFormedCigar(s) ==
    /\ \A p \in 1..Len(s) :
          /\ s[p] \in Digits \cup OpLetters
          /\ s[p] \in OpLetters => (p > 1 /\ s[p - 1] \in Digits)
    /\ Len(s) > 0 => s[Len(s)] \in OpLetters

(* C2: get_expanded_cigar fails with a MalformedCigarError whenever the     *)
(* CIGAR string holds a token that is no <digits><=, X, I or D> run; such a *)
(* string is never expanded from its well-formed tokens alone.              *)
C2_MalformedCigarRaises ==
    (pc # "expand" /\ ~WellFormedCigar(a.cigar))
        => (pc = "raised" /\ err = "MalformedCigarError")

----------------------------------------------------------------------------
(* Properties of get_alignment_scores (SpecAlignment). *)

NonInsertionColumns(ec) == {k \in 1..Len(ec) : ec[k] # 2}

\* The column of the k-th non-insertion column.
NthNonInsertion(ec, k) ==
    CHOOSE i \in NonInsertionColumns(ec) :
        Cardinality({m \in NonInsertionColumns(ec) : m <= i}) = k

RefSpanOf(rec) == rec.ref_end - rec.ref_start

(* C4 as claimed: for any ref_start, ref_end and CIGAR, get_alignment_scores *)
(* returns a sequence of length ref_end - ref_start or aborts, and a CIGAR   *)
(* whose non-insertion columns number ref_end - ref_start fails no assert.   *)
C4_LengthAnyRecord ==
    /\ pc = "returned" => Len(final_scores) = RefSpanOf(a)
    /\ (pc \in {"returned", "raised"}
        /\ Cardinality(NonInsertionColumns(expanded_cigar)) = RefSpanOf(a))
            => err # "AssertionError"

(* C4 amended: for every record with ref_start <= ref_end and any CIGAR,    *)
(* get_alignment_scores returns a sequence of length ref_end - ref_start or *)
(* aborts, and a CIGAR whose non-insertion columns number                   *)
(* ref_end - ref_start fails no assert (when it has a column at all, it is  *)
(* scored without any error).                                               *)
C4_LengthInvariant ==
    /\ (pc = "returned" /\ a.ref_start <= a.ref_end)
            => Len(final_scores) = RefSpanOf(a)
    /\ (pc \in {"returned", "raised"}
        /\ Cardinality(NonInsertionColumns(expanded_cigar)) = RefSpanOf(a))
            => /\ err # "AssertionError"
               /\ Len(expanded_cigar) > 0 => (pc = "returned" /\ err = "none")

C4_Witness ==
    /\ pc = "returned"
    /\ Len(final_scores) = 3
    /\ Len(expanded_cigar) = 5
    /\ a.ref_start = 1

\* Non-match columns in the window of width BASE_SCORE_WINDOW centred on
\* column i and cut at the two ends of the alignment.
WindowCount(ec, i) ==
    LET half == BASE_SCORE_WINDOW \div 2
    IN  Cardinality({m \in 1..Len(ec) :
                        m >= i - half /\ m <= i + half /\ ec[m] # 0})

(* C7: for an expanded CIGAR of any length n >= 1, n < window_size too,     *)
(* get_pass_fail returns a binary sequence of length n whose entry i is 1   *)
(* exactly when the truncated window centred on column i holds at least     *)
(* fail_threshold non-match columns.                                        *)
C7_FailureMask ==
    (pc \in {"forward", "reverse", "combine", "returned"}
     /\ Len(expanded_cigar) >= 1)
        => /\ Len(pass_fail) = Len(expanded_cigar)
           /\ \A i \in 1..Len(expanded_cigar) :
                 /\ pass_fail[i] \in {0, 1}
                 /\ pass_fail[i] = 1
                      <=> WindowCount(expanded_cigar, i) >= BASE_SCORE_THRESHOLD

(* C8: when the non-insertion columns number ref_end - ref_start, entry k   *)
(* of the combined score is min(forward[i], reverse[i]) for i the k-th      *)
(* non-insertion column; insertion columns give no entry.                   *)
C8_Combiner ==
    (pc = "returned"
     /\ Cardinality(NonInsertionColumns(expanded_cigar)) = RefSpanOf(a))
        => /\ Len(final_scores) = Cardinality(NonInsertionColumns(expanded_cigar))
           /\ \A k \in 1..Len(final_scores) :
                 LET i == NthNonInsertion(expanded_cigar, k)
                 IN  final_scores[k] = Min(forward_scores[i], reverse_scores[i])

C8_Witness ==
    /\ pc = "returned"
    /\ expanded_cigar = <<0, 0, 2, 0, 0>>
    /\ final_scores = <<1, 2, 2, 1>>
    /\ forward_scores # reverse_scores

----------------------------------------------------------------------------
(* Properties of the two scans (SpecScan). *)

\* The score a column must get from the score before it in the scan.
Expected(before, fail, op) ==
    CASE fail = 1 -> 0
      [] fail # 1 /\ op = 0 -> before + 1
      [] fail # 1 /\ op # 0 -> Max(before - 1, 0)

(* C6: each scan gives every column the running score after its rule,       *)
(* starting from 0: a failing column 0, a passing match the score before    *)
(* plus 1, any other passing column max(score before - 1, 0); the forward   *)
(* scan runs from the first column up, the reverse scan from the last down. *)
C6_HysteresisScan ==
    LET n == Len(expanded_cigar)
    IN  /\ pc \in {"reverse", "combine"} =>
              /\ Len(forward_scores) = n
              /\ \A i \in 1..n :
                    /\ forward_scores[i] >= 0
                    /\ forward_scores[i] =
                          Expected(IF i = 1 THEN 0 ELSE forward_scores[i - 1],
                                   pass_fail[i], expanded_cigar[i])
        /\ pc = "combine" =>
              /\ Len(reverse_scores) = n
              /\ \A i \in 1..n :
                    /\ reverse_scores[i] >= 0
                    /\ reverse_scores[i] =
                          Expected(IF i = n THEN 0 ELSE reverse_scores[i + 1],
                                   pass_fail[i], expanded_cigar[i])

C6_Witness ==
    /\ pc = "combine"
    /\ expanded_cigar = <<0, 0, 1, 0>>
    /\ pass_fail = <<0, 0, 0, 1>>
    /\ forward_scores = <<1, 2, 1, 0>>
    /\ reverse_scores = <<2, 1, 0, 0>>

----------------------------------------------------------------------------
(* Properties of get_one_seq_per_base_scores (Spec). *)

\* 0 <= ref_start < ref_end <= len(reference), and the CIGAR's
\* non-insertion columns number ref_end - ref_start.
ValidRecord(rec, ref_len) ==
    /\ 0 <= rec.ref_start
    /\ rec.ref_start < rec.ref_end
    /\ rec.ref_end <= ref_len
    /\ Cardinality(NonInsertionColumns(get_expanded_cigar(rec))) = RefSpanOf(rec)

AllValid ==
    \A k \in 1..Len(aligner_output) :
        ValidRecord(aligner_output[k], RefLen(seq_len, circular))

Aligned == pc \in {"score", "return", "done", "raised"}

(* C1: for a linear and for a circular sequence of length L, when every     *)
(* record the aligner returned is valid, get_one_seq_per_base_scores raises *)
(* nothing and returns a profile of length L of non-negative integers.      *)
C1_ProfileShape ==
    /\ (Aligned /\ AllValid) => (pc # "raised" /\ err = "none")
    /\ (pc = "done" /\ AllValid)
          => /\ Len(returned) = seq_len
             /\ \A k \in 1..Len(returned) : returned[k] \in Nat

C1_Witness ==
    /\ pc = "done"
    /\ AllValid
    /\ circular
    /\ seq_len = 2
    /\ Len(alignments) = 2
    /\ returned = <<2, 3>>

\* Sum over the retained alignments of the sum of get_alignment_scores.
RECURSIVE TotalOfScores(_)
TotalOfScores(recs) ==
    IF recs = <<>> THEN 0
    ELSE SumSeq(get_alignment_scores(recs[1]).value) + TotalOfScores(Tail(recs))

(* C3 as claimed: for a linear and for a circular sequence, the entries of  *)
(* the returned profile sum to the sum, over the retained alignments, of    *)
(* the sum of get_alignment_scores.                                         *)
C3_TotalAdditivity ==
    pc = "done" => SumSeq(returned) = TotalOfScores(alignments)

(* C3 amended: that holds of the accumulator once every alignment is added, *)
(* hence of the profile of a linear sequence; the profile of a circular     *)
(* sequence, the larger of the two halves at each position, sums to at most *)
(* that total.                                                              *)
C3_AccumulatorAdditivity ==
    /\ pc \in {"return", "done"}
          => SumSeq(per_base_scores) = TotalOfScores(alignments)
    /\ (pc = "done" /\ ~circular)
          => SumSeq(returned) = TotalOfScores(alignments)
    /\ (pc = "done" /\ circular)
          => SumSeq(returned) <= TotalOfScores(alignments)

C3_Witness ==
    /\ pc = "done"
    /\ ~circular
    /\ Len(alignments) = 2
    /\ \E k \in 1..Len(returned) : returned[k] >= 2
    /\ SumSeq(returned) = 4

(* C5: for a circular sequence of length L the returned profile is          *)
(* max(accumulator[i], accumulator[i + L]) at every i in [0, L) of the      *)
(* accumulator of length 2L; for a linear one it is the accumulator.        *)
C5_CircularFold ==
    pc = "done" =>
        IF circular
        THEN /\ Len(per_base_scores) = 2 * seq_len
             /\ Len(returned) = seq_len
             /\ \A k \in 1..seq_len :
                   returned[k] = Max(per_base_scores[k], per_base_scores[k + seq_len])
        ELSE returned = per_base_scores

C5_Witness ==
    /\ pc = "done"
    /\ circular
    /\ seq_len = 2
    /\ per_base_scores[1] > per_base_scores[3]
    /\ per_base_scores[2] < per_base_scores[4]

\* Places in the aligner's output of the records with ref_start < L.
FirstHalfPlaces == {k \in 1..Len(aligner_output) : aligner_output[k].ref_start < seq_len}

\* The j-th smallest element of a set of numbers.
NthOf(S, j) == CHOOSE k \in S : Cardinality({m \in S : m <= k}) = j

\* Accumulator positions (0-based) alignment rec writes: ref_start + j.
WritePositions(rec) ==
    {rec.ref_start + j : j \in 0..(Len(get_alignment_scores(rec).value) - 1)}

(* C9: for a circular sequence exactly the alignments with ref_start >= L   *)
(* are discarded and the others are scored in the aligner's order; for a    *)
(* linear sequence none is discarded.  Every write position of a scored     *)
(* alignment with ref_end <= len(reference) lies in [0, len(reference)):    *)
(* only an alignment that ends past the reference raises an IndexError.     *)
C9_FilterAndBounds ==
    /\ Aligned =>
          IF circular
          THEN /\ Len(alignments) = Cardinality(FirstHalfPlaces)
               /\ \A j \in 1..Len(alignments) :
                     alignments[j] = aligner_output[NthOf(FirstHalfPlaces, j)]
          ELSE alignments = aligner_output
    /\ pc \in {"return", "done"} => done_count = Len(alignments)
    /\ Aligned =>
          \A k \in 1..Len(alignments) :
              (k <= done_count + 1
               /\ alignments[k].ref_end <= RefLen(seq_len, circular))
                  => /\ WritePositions(alignments[k])
                            \subseteq 0..(RefLen(seq_len, circular) - 1)
                     /\ ~(pc = "raised" /\ k = done_count + 1)

C9_Witness ==
    /\ pc = "done"
    /\ circular
    /\ seq_len = 2
    /\ Len(aligner_output) = 2
    /\ aligner_output[1].ref_start = 2
    /\ Len(alignments) = 1
    /\ alignments[1].ref_start = 1
    /\ alignments[1].ref_end = 4

\* get_alignment_scores of each record of recs.
ScoresOf(recs) == [k \in 1..Len(recs) |-> get_alignment_scores(recs[k])]

(* The accumulator, begun at zero, after the passes of the loop over the    *)
(* alignments for recs[order[1]], ..., recs[order[n]]; scored[k] is         *)
(* get_alignment_scores(recs[k]).                                           *)
RECURSIVE RunAll(_, _, _, _)
RunAll(recs, scored, order, n) ==
    IF n = 0 THEN [err |-> "none", value |-> Zeros(RefLen(seq_len, circular))]
    ELSE LET prev == RunAll(recs, scored, order, n - 1)
             k    == order[n]
         IN  IF prev.err # "none" THEN prev
             ELSE IF scored[k].err # "none"
                  THEN [err |-> scored[k].err, value |-> prev.value]
             ELSE AccumulateLoop(prev.value, recs[k], scored[k].value,
                                 Len(scored[k].value))

\* Element-wise sum of the profiles of recs[1..n], each computed on its own.
RECURSIVE SumOfPartials(_, _, _)
SumOfPartials(recs, scored, n) ==
    IF n = 0 THEN Zeros(RefLen(seq_len, circular))
    ELSE LET rest == SumOfPartials(recs, scored, n - 1)
             own  == RunAll(recs, scored, <<n>>, 1).value
         IN  [k \in 1..Len(rest) |-> rest[k] + own[k]]

Finalized(scores) == IF circular THEN Undoubled(scores, seq_len) ELSE scores

(* C10: the returned profile is the same for every order of the retained    *)
(* alignments and is the element-wise sum of the alignments' own profiles   *)
(* (folded when circular); and no alignment lowers an accumulator entry:    *)
(* the accumulator after k alignments is entry by entry at least the one    *)
(* after k - 1.                                                             *)
C10_OrderIndependence ==
    \A scored \in {ScoresOf(alignments)} :
    LET n       == Len(alignments)
        inOrder == [k \in 1..n |-> k]
    IN  /\ pc = "done" =>
              /\ \A p \in Permutations(1..n) :
                    LET other == RunAll(alignments, scored, p, n)
                    IN  /\ other.err = "none"
                        /\ Finalized(other.value) = returned
              /\ returned = Finalized(SumOfPartials(alignments, scored, n))
        /\ pc \in {"score", "return", "done"} =>
              /\ per_base_scores
                    = RunAll(alignments, scored, inOrder, done_count).value
              /\ \A k \in 1..done_count :
                    LET after  == RunAll(alignments, scored, inOrder, k).value
                        before == RunAll(alignments, scored, inOrder, k - 1).value
                    IN  \A i \in 1..Len(per_base_scores) : after[i] >= before[i]

C10_Witness ==
    /\ pc = "done"
    /\ Len(alignments) = 2
    /\ alignments[1] # alignments[2]
    /\ alignments[1].ref_start < alignments[2].ref_end
    /\ alignments[2].ref_start < alignments[1].ref_end
    /\ \E k \in 1..Len(returned) : returned[k] >= 2

====
